---- MODULE Spec2Model ----
(***************************************************************************)
(* WebSocket upgrade response parser of ext/http/websocket_upgrade.rs:     *)
(* WebSocketUpgrade::write, its helpers parse_response, find_newline and   *)
(* validate_status, and the drivers of its test module.                    *)
(*                                                                         *)
(* Bytes are their ASCII codes.  A byte string is a sequence of codes.     *)
(***************************************************************************)
EXTENDS Integers, Sequences, FiniteSets

VARIABLES
  state,        \* WebSocketUpgrade.state
  buf,          \* WebSocketUpgrade.buf
  result,       \* what the last call of write returned
  trail,        \* the values assigned to self.state during the last call, in order
  depth,        \* how many times the last call re-entered write
  stream,       \* the bytes the transport delivers, in arrival order
  pos,          \* how many bytes of stream have been passed to write
  driver,       \* who calls write: "transport", "all_at_once" or "chunks"
  size,         \* the chunk size of validate_upgrade_chunks (0 for the other drivers)
  source,       \* the string `s` validate_upgrade was called with
  hadDone,      \* a call before the last one returned Ok(Some(..))
  hadFailure    \* a call before the last one returned Err(..)

vars == <<state, buf, result, trail, depth, stream, pos, driver, size, source,
          hadDone, hadFailure>>

-----------------------------------------------------------------------------
(* Byte constants                                                          *)

LF == 10
CR == 13

\* b"HTTP/1.1 101 "
HTTP_101 == <<72, 84, 84, 80, 47, 49, 46, 49, 32, 49, 48, 49, 32>>

\* b"\r\n\r\n" and b"\n\n", the needles of HEADER_SEARCHER and HEADER_SEARCHER2
CRLFCRLF == <<CR, LF, CR, LF>>
LFLF == <<LF, LF>>

\* [httparse::EMPTY_HEADER; 16]
MaxHeaders == 16

-----------------------------------------------------------------------------
(* Slices                                                                  *)

Min(a, b) == IF a < b THEN a ELSE b

\* &s[from..] with from a 0-based index
Tail0(s, from) == SubSeq(s, from + 1, Len(s))

\* &s[..to] with to a 0-based exclusive index
Head0(s, to) == SubSeq(s, 1, to)

starts_with(s, p) == Len(s) >= Len(p) /\ SubSeq(s, 1, Len(p)) = p

ends_with(s, p) == Len(s) >= Len(p) /\ SubSeq(s, Len(s) - Len(p) + 1, Len(s)) = p

\* hay[i..] starts with needle (i is 1-based)
MatchAt(needle, hay, i) == \A k \in 1..Len(needle) : hay[i + k - 1] = needle[k]

\* TwoWaySearcher::search_in: 1 + the 0-based index of the first match, 0 for None
search_in(needle, hay) ==
  LET hits == {i \in 1..(Len(hay) - Len(needle) + 1) : MatchAt(needle, hay, i)}
  IN IF hits = {} THEN 0 ELSE CHOOSE i \in hits : \A j \in hits : i <= j

\* find_newline: 1 + the 0-based index of the first b'\n', 0 for None
find_newline(slice) ==
  LET hits == {i \in 1..Len(slice) : slice[i] = LF}
  IN IF hits = {} THEN 0 ELSE CHOOSE i \in hits : \A j \in hits : i <= j

-----------------------------------------------------------------------------
(* httparse::parse_headers, as called by parse_response                     *)

\* tchar of RFC 7230: the bytes httparse accepts in a header name
is_header_name_token(b) ==
  \/ b \in 48..57 \/ b \in 65..90 \/ b \in 97..122
  \/ b \in {33, 35, 36, 37, 38, 39, 42, 43, 45, 46, 94, 95, 96, 124, 126}

\* the bytes httparse accepts in a header value: HTAB, SP..'~', obs-text
is_header_value_token(b) == b = 9 \/ b \in 32..126 \/ b \in 128..255

is_space(b) == b = 32 \/ b = 9

\* the byte classes the tokenizer scans over
InClass(class, b) ==
  CASE class = "name" -> is_header_name_token(b)
    [] class = "space" -> is_space(b)
    [] class = "value" -> is_header_value_token(b)

\* the first index >= from whose byte is not of the class, Len(b) + 1 if none
RECURSIVE FirstNot(_, _, _)
FirstNot(b, from, class) ==
  IF from > Len(b) THEN Len(b) + 1
  ELSE IF ~InClass(class, b[from]) THEN from
  ELSE FirstNot(b, from + 1, class)

\* the value with its trailing SP / HTAB removed
TrimRight(v) ==
  LET keep == {k \in 1..Len(v) : ~is_space(v[k])}
  IN IF keep = {} THEN <<>>
     ELSE SubSeq(v, 1, CHOOSE k \in keep : \A j \in keep : j <= k)

Partial == [status |-> "Partial", index |-> 0, headers |-> <<>>, err |-> ""]
ParseError(e) == [status |-> "Error", index |-> 0, headers |-> <<>>, err |-> e]
ParseComplete(i, hs) == [status |-> "Complete", index |-> i, headers |-> hs, err |-> ""]

\* the 16 slots hold a header each
HeadersFull_off_by_one(hs) == Len(hs) > MaxHeaders

\* the headers array has no slot left for another header
HeadersFull(hs) == Len(hs) >= MaxHeaders

\* One pass of httparse's 'headers loop, from the 1-based index i, with the
\* headers hs already parsed.  index is the count of bytes consumed.
RECURSIVE parse_headers_from(_, _, _)
parse_headers_from(b, i, hs) ==
  IF i > Len(b) THEN Partial
  ELSE IF b[i] = CR THEN
    (IF i + 1 > Len(b) THEN Partial
     ELSE IF b[i + 1] = LF THEN ParseComplete(i + 1, hs)
     ELSE ParseError("invalid new line"))
  ELSE IF b[i] = LF THEN ParseComplete(i, hs)
  ELSE IF ~is_header_name_token(b[i]) THEN ParseError("invalid header name")
  ELSE IF HeadersFull(hs) THEN ParseError("too many headers")
  ELSE
    LET j == FirstNot(b, i, "name")
    IN IF j > Len(b) THEN Partial
       ELSE IF b[j] # 58 THEN ParseError("invalid header name")
       ELSE
         LET name == SubSeq(b, i, j - 1)
             v == FirstNot(b, j + 1, "space")
         IN IF v > Len(b) THEN Partial
            ELSE IF is_header_value_token(b[v]) THEN
              LET e == FirstNot(b, v, "value")
                  h == [name |-> name, value |-> TrimRight(SubSeq(b, v, e - 1))]
              IN IF e > Len(b) THEN Partial
                 ELSE IF b[e] = CR THEN
                   (IF e + 1 > Len(b) THEN Partial
                    ELSE IF b[e + 1] = LF
                      THEN parse_headers_from(b, e + 2, Append(hs, h))
                    ELSE ParseError("invalid header value"))
                 ELSE IF b[e] = LF THEN parse_headers_from(b, e + 1, Append(hs, h))
                 ELSE ParseError("invalid header value")
            ELSE IF b[v] = CR THEN
              (IF v + 1 > Len(b) THEN Partial
               ELSE IF b[v + 1] = LF
                 THEN parse_headers_from(b, v + 2,
                                         Append(hs, [name |-> name, value |-> <<>>]))
               ELSE ParseError("invalid header value"))
            ELSE IF b[v] = LF
              THEN parse_headers_from(b, v + 1,
                                      Append(hs, [name |-> name, value |-> <<>>]))
            ELSE ParseError("invalid header value")

parse_headers(header_bytes) == parse_headers_from(header_bytes, 1, <<>>)

-----------------------------------------------------------------------------
(* hyper::http::HeaderMap, as filled by parse_response                      *)

\* HeaderName::from_bytes lower-cases the name
to_lower(b) == IF b \in 65..90 THEN b + 32 ELSE b
HeaderName(name) == [k \in 1..Len(name) |-> to_lower(name[k])]

\* HeaderValue::from_str(str::from_utf8(v)) accepts visible ASCII and HTAB only
HeaderValueOk(v) == \A k \in 1..Len(v) : v[k] = 9 \/ v[k] \in 32..126

\* HeaderMap::insert in place of append: the new value replaces the old ones
append_as_insert(map, name, value) ==
  IF \E k \in 1..Len(map) : map[k].name = name
    THEN [k \in 1..Len(map) |->
            IF map[k].name = name
              THEN [map[k] EXCEPT !.values = <<value>>]
              ELSE map[k]]
    ELSE Append(map, [name |-> name, values |-> <<value>>])

\* HeaderMap::append: a new name gets a new entry after the others; a name the
\* map holds gets the value pushed to the end of that entry's list of values
append(map, name, value) ==
  IF \E k \in 1..Len(map) : map[k].name = name
    THEN [k \in 1..Len(map) |->
            IF map[k].name = name
              THEN [map[k] EXCEPT !.values = Append(@, value)]
              ELSE map[k]]
    ELSE Append(map, [name |-> name, values |-> <<value>>])

RECURSIVE append_all(_, _)
append_all(map, parsed) ==
  IF parsed = <<>> THEN map
  ELSE append_all(append(map, HeaderName(parsed[1].name), parsed[1].value), Tail(parsed))

\* HeaderMap::iter: the entries in order, each with its values in order
RECURSIVE iter(_)
iter(map) ==
  IF map = <<>> THEN <<>>
  ELSE [k \in 1..Len(map[1].values) |-> <<map[1].name, map[1].values[k]>>] \o iter(Tail(map))

-----------------------------------------------------------------------------
(* parse_response                                                          *)

\* Result<(usize, Response<T>), AnyError>
parse_response(header_bytes) ==
  LET st == parse_headers(header_bytes)
  IN IF st.status = "Error" THEN [ok |-> FALSE, err |-> st.err, index |-> 0,
                                  response |-> [status |-> 0, headers |-> <<>>]]
     ELSE IF st.status = "Partial" THEN [ok |-> FALSE, err |-> "invalid headers", index |-> 0,
                                  response |-> [status |-> 0, headers |-> <<>>]]
     ELSE IF \E k \in 1..Len(st.headers) : ~HeaderValueOk(st.headers[k].value)
       THEN [ok |-> FALSE, err |-> "failed to parse header value", index |-> 0,
             response |-> [status |-> 0, headers |-> <<>>]]
     ELSE [ok |-> TRUE, err |-> "", index |-> st.index,
           response |-> [status |-> 101, headers |-> append_all(<<>>, st.headers)]]

-----------------------------------------------------------------------------
(* WebSocketUpgrade                                                        *)

NoResponse == [status |-> 0, headers |-> <<>>]

NotCalled == [kind |-> "NotCalled", err |-> "", response |-> NoResponse, leftover |-> <<>>]
Pending == [kind |-> "Pending", err |-> "", response |-> NoResponse, leftover |-> <<>>]
Done(response, leftover) ==
  [kind |-> "Done", err |-> "", response |-> response, leftover |-> leftover]
Failure(e) == [kind |-> "Failure", err |-> e, response |-> NoResponse, leftover |-> <<>>]

InvalidStatusLine == "invalid HTTP status line"
UseAfterComplete == "attempted to write to completed upgrade buffer"

validate_status(status) == starts_with(status, HTTP_101)

\* What one call leaves behind: the fields of self, the value returned, the
\* values self.state was assigned, and the depth of re-entry reached.
Outcome(st, b, r, tr, d) == [state |-> st, buf |-> b, result |-> r, trail |-> tr, depth |-> d]

RECURSIVE write(_, _, _)

\* StrictBranch that splits the buffer where the \r\n\r\n it searched for ends
StrictBranch_at_match(self, d) ==
  LET p == parse_response(self.buf)
      at == search_in(CRLFCRLF, self.buf) + 3
  IN IF ~p.ok THEN Outcome("Headers", self.buf, Failure(p.err), <<>>, d)
     ELSE Outcome("Complete", <<>>, Done(p.response, Tail0(self.buf, at)),
                  <<"Complete">>, d)

\* Headers, the \r\n\r\n branch
StrictBranch(self, d) ==
  LET p == parse_response(self.buf)
  IN IF ~p.ok THEN Outcome("Headers", self.buf, Failure(p.err), <<>>, d)
     ELSE Outcome("Complete", <<>>, Done(p.response, Tail0(self.buf, p.index)),
                  <<"Complete">>, d)

\* LenientBranch that splits the buffer at its end
LenientBranch_no_leftover(self, d) ==
  LET p == parse_response(self.buf)
  IN IF ~p.ok THEN Outcome("Headers", self.buf, Failure(p.err), <<>>, d)
     ELSE Outcome("Complete", <<>>, Done(p.response, <<>>), <<"Complete">>, d)

\* Headers, the \n\n branch
LenientBranch(self, d) ==
  LET p == parse_response(self.buf)
  IN IF ~p.ok THEN Outcome("Headers", self.buf, Failure(p.err), <<>>, d)
     ELSE Outcome("Complete", <<>>, Done(p.response, Tail0(self.buf, p.index)),
                  <<"Complete">>, d)

\* write_Headers that takes an empty chunk for the end of the input
write_Headers_eof(self, bytes, d) ==
  LET b == self.buf \o bytes
      me == [state |-> "Headers", buf |-> b]
  IN IF bytes = <<>> THEN Outcome("Headers", b, Failure("invalid headers"), <<>>, d)
     ELSE IF search_in(CRLFCRLF, b) # 0 THEN StrictBranch(me, d)
     ELSE IF search_in(LFLF, b) # 0 THEN LenientBranch(me, d)
     ELSE Outcome("Headers", b, Pending, <<>>, d)

write_Headers(self, bytes, d) ==
  LET b == self.buf \o bytes
      me == [state |-> "Headers", buf |-> b]
  IN IF search_in(CRLFCRLF, b) # 0 THEN StrictBranch(me, d)
     ELSE IF search_in(LFLF, b) # 0 THEN LenientBranch(me, d)
     ELSE Outcome("Headers", b, Pending, <<>>, d)

\* FastPath that returns Bytes::default() whatever the index is
FastPath_no_leftover(self, rest, d) ==
  LET p == parse_response(rest)
  IN IF ~p.ok THEN Outcome(self.state, self.buf, Failure(p.err), <<>>, d)
     ELSE Outcome(self.state, self.buf, Done(p.response, <<>>), <<>>, d)

\* Initial, the fast path: rest ends with \r\n\r\n
FastPath(self, rest, d) ==
  LET p == parse_response(rest)
  IN IF ~p.ok THEN Outcome(self.state, self.buf, Failure(p.err), <<>>, d)
     ELSE IF p.index = Len(rest)
       THEN Outcome(self.state, self.buf, Done(p.response, <<>>), <<>>, d)
     ELSE Outcome(self.state, self.buf, Done(p.response, Tail0(rest, p.index)), <<>>, d)

\* Reenter without self.state = Headers: the nested call runs in the state
\* the outer call was made in
Reenter_same_state(self, rest, d) ==
  LET r == write([state |-> self.state, buf |-> self.buf], rest, d + 1)
  IN [r EXCEPT !.trail = <<"Headers">> \o @]

\* self.state = Headers; self.write(rest)
Reenter(self, rest, d) ==
  LET r == write([state |-> "Headers", buf |-> self.buf], rest, d + 1)
  IN [r EXCEPT !.trail = <<"Headers">> \o @]

\* write_Initial whose fast path parses the chunk from its first byte
write_Initial_whole_chunk(self, bytes, d) ==
  LET index == find_newline(bytes)
  IN IF index # 0 THEN
       LET status == Head0(bytes, index)
           rest == Tail0(bytes, index)
       IN IF ~validate_status(status)
            THEN Outcome(self.state, self.buf, Failure(InvalidStatusLine), <<>>, d)
          ELSE IF ends_with(rest, CRLFCRLF) THEN FastPath(self, bytes, d)
          ELSE Reenter(self, rest, d)
     ELSE Outcome("StatusLine", self.buf \o bytes, Pending, <<"StatusLine">>, d)

write_Initial(self, bytes, d) ==
  LET index == find_newline(bytes)
  IN IF index # 0 THEN
       LET status == Head0(bytes, index)
           rest == Tail0(bytes, index)
       IN IF ~validate_status(status)
            THEN Outcome(self.state, self.buf, Failure(InvalidStatusLine), <<>>, d)
          ELSE IF ends_with(rest, CRLFCRLF) THEN FastPath(self, rest, d)
          ELSE Reenter(self, rest, d)
     ELSE Outcome("StatusLine", self.buf \o bytes, Pending, <<"StatusLine">>, d)

\* write_StatusLine that starts over after a bad status line
write_StatusLine_reset(self, bytes, d) ==
  LET index == find_newline(bytes)
  IN IF index # 0 THEN
       LET status == Head0(bytes, index)
           rest == Tail0(bytes, index)
           b == self.buf \o status
       IN IF ~validate_status(b)
            THEN Outcome("Initial", <<>>, Failure(InvalidStatusLine), <<"Initial">>, d)
          ELSE Reenter([state |-> self.state, buf |-> <<>>], rest, d)
     ELSE Outcome(self.state, self.buf \o bytes, Pending, <<>>, d)

\* write_StatusLine without self.buf.clear(): the status line stays in the buffer
write_StatusLine_unclear(self, bytes, d) ==
  LET index == find_newline(bytes)
  IN IF index # 0 THEN
       LET status == Head0(bytes, index)
           rest == Tail0(bytes, index)
           b == self.buf \o status
       IN IF ~validate_status(b)
            THEN Outcome(self.state, b, Failure(InvalidStatusLine), <<>>, d)
          ELSE Reenter([state |-> self.state, buf |-> b], rest, d)
     ELSE Outcome(self.state, self.buf \o bytes, Pending, <<>>, d)

write_StatusLine(self, bytes, d) ==
  LET index == find_newline(bytes)
  IN IF index # 0 THEN
       LET status == Head0(bytes, index)
           rest == Tail0(bytes, index)
           b == self.buf \o status
       IN IF ~validate_status(b)
            THEN Outcome(self.state, b, Failure(InvalidStatusLine), <<>>, d)
          ELSE Reenter([state |-> self.state, buf |-> <<>>], rest, d)
     ELSE Outcome(self.state, self.buf \o bytes, Pending, <<>>, d)

write_Complete(self, bytes, d) ==
  Outcome(self.state, self.buf, Failure(UseAfterComplete), <<>>, d)

write(self, bytes, d) ==
  CASE self.state = "Initial" -> write_Initial(self, bytes, d)
    [] self.state = "StatusLine" -> write_StatusLine(self, bytes, d)
    [] self.state = "Headers" -> write_Headers(self, bytes, d)
    [] self.state = "Complete" -> write_Complete(self, bytes, d)

\* WebSocketUpgrade::default()
Fresh == [state |-> "Initial", buf |-> <<>>]

-----------------------------------------------------------------------------
(* The inputs: responses built from status lines, header lines, line ends   *)
(* and trailing data                                                        *)

\* the most header lines of a generated response
MaxLines == 2
\* how many header lines past the capacity a generated response may have
MaxExtra == 1
\* the largest chunk size of the chunked driver
MaxChunk == 10

RECURSIVE Concat(_)
Concat(ss) == IF ss = <<>> THEN <<>> ELSE ss[1] \o Concat(Tail(ss))

RECURSIVE SeqsUpTo(_, _)
SeqsUpTo(S, n) ==
  IF n = 0 THEN {<<>>}
  ELSE LET shorter == SeqsUpTo(S, n - 1)
       IN shorter \cup {Append(s, x) : s \in {t \in shorter : Len(t) = n - 1}, x \in S}

\* "A:1", "B: 2", "A:3"
LineA1 == <<65, 58, 49>>
LineB2 == <<66, 58, 32, 50>>
LineA3 == <<65, 58, 51>>
HeaderLines == {LineA1, LineB2, LineA3}

\* line ends of <<the status line, each header line, the blank line>>
AllLF == <<<<LF>>, <<LF>>, <<LF>>>>
AllCRLF == <<<<CR, LF>>, <<CR, LF>>, <<CR, LF>>>>
\* a block that ends with its last header line: the blank line is missing
NoBlankLine == <<<<CR, LF>>, <<CR, LF>>, <<>>>>
Styles == {AllLF, AllCRLF,
           <<<<LF>>, <<LF>>, <<CR, LF>>>>,
           <<<<LF>>, <<CR, LF>>, <<LF>>>>,
           NoBlankLine}

\* a second response that follows the first on the same connection:
\* "HTTP/1.1 101 \n\r\n\r\n"
NextResponse == HTTP_101 \o <<LF>> \o CRLFCRLF

\* "", "t", "t\r\n\r\n", a second response
Trailings == {<<>>, <<116>>, <<116>> \o CRLFCRLF, NextResponse}

Block(lines, style) ==
  Concat([k \in 1..Len(lines) |-> lines[k] \o style[2]]) \o style[3]

\* responses with a valid status line and well-formed header lines
RegularOf(styles) ==
  {HTTP_101 \o style[1] \o Block(lines, style) \o tr :
     lines \in SeqsUpTo(HeaderLines, MaxLines), style \in styles, tr \in Trailings}

Regular == RegularOf(Styles)

\* responses that repeat a header name: lines A, B, A in their three orders
Repeated ==
  {HTTP_101 \o style[1] \o Block(lines, style) :
     lines \in {<<LineA1, LineB2, LineA3>>, <<LineB2, LineA1, LineA3>>,
                <<LineA1, LineA3, LineB2>>},
     style \in {AllLF, AllCRLF}}

\* "HTTP/1.1 200 \n", "HTTP/1.1 101\n" (no space), "H\n", "\n"
BadStatusLines == {<<72, 84, 84, 80, 47, 49, 46, 49, 32, 50, 48, 48, 32, LF>>,
                   <<72, 84, 84, 80, 47, 49, 46, 49, 32, 49, 48, 49, LF>>,
                   <<72, LF>>,
                   <<LF>>}

\* an invalid status line, then a header block or a whole valid response
BadStatus ==
  {sl \o tr :
     sl \in BadStatusLines,
     tr \in {LineA1 \o LFLF, LineA1 \o CRLFCRLF, NextResponse}}

\* header lines the tokenizer or the header types refuse:
\* "A" (no colon), " A:1" (leading space), "A:" 200 (not ASCII), "A:1\r" "x"
BadLines == {<<65>>, <<32, 65, 58, 49>>, <<65, 58, 200>>, <<65, 58, 49, CR, 120>>}

Malformed ==
  {HTTP_101 \o style[1] \o Block(good \o <<bad>>, style) :
     good \in {<<>>, <<LineA1>>}, bad \in BadLines, style \in {AllLF, AllCRLF}}

\* header blocks around the capacity of the header array: lines "h:"
Crowded ==
  {HTTP_101 \o style[1] \o Block([k \in 1..n |-> <<104, 58>>], style) \o tr :
     n \in (MaxHeaders - 1)..(MaxHeaders + MaxExtra),
     style \in {AllLF, AllCRLF},
     tr \in {<<>>, <<116>>}}

Streams == Regular \cup Repeated \cup BadStatus \cup Malformed \cup Crowded

-----------------------------------------------------------------------------
(* Calls of write                                                          *)

\* upgrade.write(chunk) with the next n bytes of the stream
Call(n) ==
  LET chunk == SubSeq(stream, pos + 1, pos + n)
  IN \E out \in {write([state |-> state, buf |-> buf], chunk, 0)} :
     /\ state' = out.state
     /\ buf' = out.buf
     /\ result' = out.result
     /\ trail' = out.trail
     /\ depth' = out.depth
     /\ pos' = pos + n
     /\ hadDone' = (hadDone \/ result.kind = "Done")
     /\ hadFailure' = (hadFailure \/ result.kind = "Failure")
     /\ UNCHANGED <<stream, driver, size, source>>

Untouched ==
  /\ state = "Initial"
  /\ buf = <<>>
  /\ result = NotCalled
  /\ trail = <<>>
  /\ depth = 0
  /\ pos = 0
  /\ hadDone = FALSE
  /\ hadFailure = FALSE

-----------------------------------------------------------------------------
(* The transport: any split of the stream into chunks, empty chunks too,    *)
(* and nothing stops it calling write after Done or after a failure         *)

Init ==
  /\ Untouched
  /\ stream \in Streams
  /\ source = stream
  /\ driver = "transport"
  /\ size = 0

WriteInitial == state = "Initial" /\ \E n \in 0..(Len(stream) - pos) : Call(n)
WriteStatusLine == state = "StatusLine" /\ \E n \in 0..(Len(stream) - pos) : Call(n)
WriteHeaders == state = "Headers" /\ \E n \in 0..(Len(stream) - pos) : Call(n)
WriteComplete == state = "Complete" /\ \E n \in 0..(Len(stream) - pos) : Call(n)

Next == WriteInitial \/ WriteStatusLine \/ WriteHeaders \/ WriteComplete

Spec == Init /\ [][Next]_vars

-----------------------------------------------------------------------------
(* The drivers of the test module                                          *)

\* s.replace('\n', "\r\n")
RECURSIVE replace_lf(_)
replace_lf(s) ==
  IF s = <<>> THEN <<>>
  ELSE (IF s[1] = LF THEN <<CR, LF>> ELSE <<s[1]>>) \o replace_lf(Tail(s))

\* validate_upgrade: "Replace \n with \r\n, but only in headers"
crlf_form(s) ==
  LET at == search_in(LFLF, s)
  IN replace_lf(Head0(s, at - 1)) \o CRLFCRLF \o Tail0(s, at + 1)

\* validate_upgrade_chunks as a function of the string and the chunk size:
\* the loop `for chunk in s.chunks(n)` over the bytes s that are left, entered
\* with the parser `self` and the result `last` of the call before; it ends at
\* the first call that returns Ok(Some(..)).  The chunks are taken half of them
\* at a time (the first half, then the rest from where the first half ended),
\* which calls write with the same chunks in the same order.
RECURSIVE run_chunks(_, _, _, _)
run_chunks(self, s, n, last) ==
  LET count == (Len(s) + n - 1) \div n
  IN IF count = 0 THEN [state |-> self.state, buf |-> self.buf, result |-> last]
     ELSE IF count = 1 THEN
       LET out == write(self, s, 0)
       IN [state |-> out.state, buf |-> out.buf, result |-> out.result]
     ELSE
       LET half == n * (count \div 2)
           first == run_chunks(self, Head0(s, half), n, last)
       IN IF first.result.kind = "Done" THEN first
          ELSE run_chunks([state |-> first.state, buf |-> first.buf],
                          Tail0(s, half), n, first.result)

RunChunks(s, n) == run_chunks([state |-> "Initial", buf |-> <<>>], s, n, Pending).result

InitUpgrade ==
  /\ Untouched
  /\ source \in Streams
  /\ stream \in {source} \cup (IF search_in(LFLF, source) # 0 THEN {crlf_form(source)} ELSE {})
  /\ \/ driver = "all_at_once" /\ size = 0
     \/ driver = "chunks" /\ size \in 1..MaxChunk

\* validate_upgrade_all_at_once: one call with the whole string
AllAtOnce ==
  /\ driver = "all_at_once"
  /\ result = NotCalled
  /\ Call(Len(stream))

\* validate_upgrade_chunks: s.chunks(size), until a call returns Ok(Some(..))
Chunk ==
  /\ driver = "chunks"
  /\ pos < Len(stream)
  /\ result.kind # "Done"
  /\ Call(Min(size, Len(stream) - pos))

NextUpgrade == AllAtOnce \/ Chunk

SpecUpgrade == InitUpgrade /\ [][NextUpgrade]_vars

-----------------------------------------------------------------------------
(* What the claims speak of                                                *)

\* the bytes passed to write so far
Received == Head0(stream, pos)

\* 1 + the 0-based index of the first \n of the whole input, 0 if it has none
FirstLineEnd == find_newline(stream)

\* the bytes received after the first line
Rest == Tail0(Received, FirstLineEnd)

\* validate_upgrade_all_at_once: a fresh parser, one call
OneShot(s) == write(Fresh, s, 0).result

\* the end of the earliest blank line of b (a line that is "\n" or "\r\n"),
\* found by looking at the lines alone; 0 if b has no blank line
BlankLineEnd(b) ==
  LET ends == {e \in 1..Len(b) :
                 /\ b[e] = LF
                 /\ \/ e = 1
                    \/ b[e - 1] = LF
                    \/ b[e - 1] = CR /\ (e = 2 \/ b[e - 2] = LF)}
  IN IF ends = {} THEN 0 ELSE CHOOSE e \in ends : \A f \in ends : e <= f

-----------------------------------------------------------------------------
\* C1: once a call of write has returned Done, every later call returns the
\* "write after completion" failure and leaves state and buf as they were.
C1_PostCompletionGuard ==
  [][(result.kind = "Done" \/ hadDone) =>
       /\ result'.kind = "Failure"
       /\ result'.err = UseAfterComplete
       /\ state' = state
       /\ buf' = buf]_vars

-----------------------------------------------------------------------------
\* the driver has finished: a call returned Ok(Some(..)) or the chunks ran out
DriverDone == result.kind = "Done" \/ (pos = Len(stream) /\ result.kind # "NotCalled")

\* C2 as stated: fed in chunks of any one size, a response that one call
\* parses yields the same response and the same leftover as that one call.
C2_ChunkInvariance ==
  (driver = "chunks" /\ OneShot(stream).kind = "Done" /\ DriverDone) =>
    /\ result.kind = "Done"
    /\ result.response = OneShot(stream).response
    /\ result.leftover = OneShot(stream).leftover

\* C2 amended: fed in chunks of any one size, a response that one call parses
\* yields the same response; the leftover is the part of the one-call leftover
\* that has been delivered when the parse completes, the bytes of later chunks
\* are not in it.
C2_ChunkInvariancePrefix ==
  (driver = "chunks" /\ OneShot(stream).kind = "Done" /\ DriverDone) =>
    LET whole == OneShot(stream).leftover
        undelivered == Len(stream) - pos
    IN /\ result.kind = "Done"
       /\ result.response = OneShot(stream).response
       /\ undelivered <= Len(whole)
       /\ result.leftover = Head0(whole, Len(whole) - undelivered)

\* a chunked run that completes inside the trailing data: part of it is the
\* leftover, the rest is still to come
C2_Witness ==
  /\ driver = "chunks"
  /\ result.kind = "Done"
  /\ result.response.headers # <<>>
  /\ result.leftover # <<>>
  /\ pos < Len(stream)

-----------------------------------------------------------------------------
\* C3: whenever write returns Done on an instance with no earlier failure, all
\* the chunks passed so far are, in order, the validated status line, the bytes
\* the header parser consumed, and the returned leftover.
C3_ByteConservation ==
  (result.kind = "Done" /\ ~hadFailure) =>
    LET status == Head0(Received, FirstLineEnd)
        p == parse_response(Rest)
    IN /\ validate_status(status)
       /\ p.ok
       /\ result.leftover = Tail0(Rest, p.index)
       /\ Received = status \o Head0(Rest, p.index) \o result.leftover

-----------------------------------------------------------------------------
\* the first line of the input does not start with "HTTP/1.1 101 "
BadFirstLine == FirstLineEnd # 0 /\ ~validate_status(Head0(stream, FirstLineEnd))

\* C4: when the first line of the stream is not a valid status line, however
\* the stream is chunked, every write before the one that delivers the first \n
\* returns Pending, that one returns the invalid-status-line failure, and no
\* Done is produced.
C4_StatusValidation ==
  BadFirstLine =>
    /\ (pos < FirstLineEnd /\ result.kind # "NotCalled") => result = Pending
    /\ (pos >= FirstLineEnd /\ ~hadFailure) => result = Failure(InvalidStatusLine)
    /\ result.kind # "Done"

-----------------------------------------------------------------------------
\* C5: after a call of write has returned a failure, no later call returns
\* Pending or Done.
C5_FailureIsTerminal == hadFailure => result.kind = "Failure"

-----------------------------------------------------------------------------
\* C6: the leftover of the first Done starts right after the earliest blank
\* line of the bytes that follow the status line, whichever of the two searches
\* matched; a \r\n\r\n further on, in the trailing data, is part of the leftover.
C6_LeftoverNotResearched ==
  (result.kind = "Done" /\ ~hadDone /\ ~hadFailure) =>
    /\ BlankLineEnd(Rest) # 0
    /\ result.leftover = Tail0(Rest, BlankLineEnd(Rest))

\* the header bytes end with \n\n, the trailing data holds a \r\n\r\n: the
\* \r\n\r\n search matched, in the trailing data, and the leftover keeps it
C6_Witness ==
  /\ result.kind = "Done" /\ ~hadDone /\ ~hadFailure
  /\ state = "Complete"
  /\ search_in(LFLF, Rest) # 0
  /\ search_in(LFLF, Rest) < search_in(CRLFCRLF, Rest)
  /\ BlankLineEnd(Rest) = search_in(LFLF, Rest) + 1
  /\ search_in(CRLFCRLF, result.leftover) # 0

-----------------------------------------------------------------------------
\* the (name, value) pairs of the header lines of b, in the order of the lines,
\* the names in the lower case HeaderName gives them
LinePairs(b) ==
  LET hs == parse_headers(b).headers
  IN [k \in 1..Len(hs) |-> <<HeaderName(hs[k].name), hs[k].value>>]

\* the values the pairs give to a name, in order
ValuesOf(pairs, name) ==
  LET Named(p) == p[1] = name
      sel == SelectSeq(pairs, Named)
  IN [k \in 1..Len(sel) |-> sel[k][2]]

\* the index of the first pair with the name
FirstOf(pairs, name) ==
  CHOOSE k \in 1..Len(pairs) :
    pairs[k][1] = name /\ \A j \in 1..(k - 1) : pairs[j][1] # name

\* C7 as stated: on Done the response lists the (name, value) pairs of the
\* header lines in their original order, repeated names as separate entries,
\* and its status code is 101.
C7_HeadersInOrder ==
  (result.kind = "Done" /\ ~hadDone /\ ~hadFailure) =>
    /\ result.response.status = 101
    /\ iter(result.response.headers) = LinePairs(Rest)

\* C7 amended: on Done the status code is 101 and the response holds one
\* value per header line, under the line's lower-cased name; the values of one
\* name are in the order of their lines, and the names are in the order of their
\* first lines (lines A, B, A are listed A, A, B).
C7_HeadersGrouped ==
  (result.kind = "Done" /\ ~hadDone /\ ~hadFailure) =>
    LET map == result.response.headers
        listed == iter(map)
        lines == LinePairs(Rest)
    IN /\ result.response.status = 101
       /\ Len(listed) = Len(lines)
       /\ \A k \in 1..Len(lines) :
            ValuesOf(listed, lines[k][1]) = ValuesOf(lines, lines[k][1])
       /\ \A i \in 1..Len(map) :
            /\ \E k \in 1..Len(lines) : lines[k][1] = map[i].name
            /\ \A j \in 1..(i - 1) :
                 /\ map[j].name # map[i].name
                 /\ FirstOf(lines, map[j].name) < FirstOf(lines, map[i].name)

\* header lines "A:1", "B: 2", "A:3" parsed: the response lists a, a, b
C7_Witness ==
  /\ result.kind = "Done" /\ ~hadDone /\ ~hadFailure
  /\ LinePairs(Rest) = << <<<<97>>, <<49>>>>, <<<<98>>, <<50>>>>, <<<<97>>, <<51>>>> >>
  /\ iter(result.response.headers) =
       << <<<<97>>, <<49>>>>, <<<<97>>, <<51>>>>, <<<<98>>, <<50>>>> >>

-----------------------------------------------------------------------------
\* a response written with bare \n line ends up to its blank line
BareLF(s) ==
  /\ search_in(LFLF, s) # 0
  /\ \A k \in 1..search_in(LFLF, s) : s[k] # CR

\* what the driver of this run returns for the string s
SameDriver(s) == IF driver = "all_at_once" THEN OneShot(s) ELSE RunChunks(s, size)

\* the stream is the \r\n form of a valid bare-\n response, and the driver is done
CRLFRunDone ==
  /\ BareLF(source)
  /\ stream = crlf_form(source)
  /\ SameDriver(source).kind = "Done"
  /\ DriverDone

\* C8 as stated: the \r\n form of a valid bare-\n response gives, in one call
\* and in chunks of each size, the same response and the same leftover as the
\* bare-\n form delivered the same way.
C8_LineEndingEquivalence ==
  CRLFRunDone =>
    /\ result.kind = "Done"
    /\ result.response = SameDriver(source).response
    /\ result.leftover = SameDriver(source).leftover

\* s is the start of t
IsPrefix(s, t) == Len(s) <= Len(t) /\ Head0(t, Len(s)) = s

\* C8 amended: the \r\n form gives the same response as the bare-\n form
\* delivered the same way; in one call the leftovers are equal (the trailing
\* data); in chunks each leftover is a start of the trailing data, cut where
\* its own completing chunk ends, so their lengths can differ.
C8_LineEndingResponse ==
  CRLFRunDone =>
    LET trailing == Tail0(source, search_in(LFLF, source) + 1)
    IN /\ result.kind = "Done"
       /\ result.response = SameDriver(source).response
       /\ driver = "all_at_once" =>
            /\ result.leftover = trailing
            /\ SameDriver(source).leftover = trailing
       /\ IsPrefix(result.leftover, trailing)
       /\ IsPrefix(SameDriver(source).leftover, trailing)

\* a chunked run of a \r\n form whose leftover is not that of the bare-\n form
C8_Witness ==
  /\ CRLFRunDone
  /\ driver = "chunks"
  /\ result.response.headers # <<>>
  /\ result.leftover # SameDriver(source).leftover

-----------------------------------------------------------------------------
\* the inputs with a valid status line, well-formed header lines and a blank line
WithBlankLine == RegularOf(Styles \ {NoBlankLine}) \cup Repeated \cup Crowded

\* how many header lines b has before its earliest blank line
NumLines(b) == Cardinality({k \in 1..BlankLineEnd(b) : b[k] = LF}) - 1

\* \r\n\r\n or \n\n is among the bytes b
HasTerminator(b) == search_in(CRLFCRLF, b) # 0 \/ search_in(LFLF, b) # 0

\* C9: with a valid status line and well-formed header lines, in one call or
\* in any chunks, the result is Pending until the terminator has been
\* delivered; the call that delivers it returns Done with as many headers as
\* there are lines when these are at most 16, and the too-many-headers failure
\* when they are 17 or more.
C9_TooManyHeadersBoundary ==
  (stream \in WithBlankLine /\ ~hadDone /\ ~hadFailure /\ result.kind # "NotCalled") =>
    IF pos < FirstLineEnd \/ ~HasTerminator(Rest)
      THEN result = Pending
      ELSE IF NumLines(Rest) <= MaxHeaders
        THEN /\ result.kind = "Done"
             /\ Len(iter(result.response.headers)) = NumLines(Rest)
        ELSE result = Failure("too many headers")

\* a block of 17 header lines has been delivered whole and has failed in
\* the Headers state
C9_Witness ==
  /\ stream \in Crowded /\ ~hadDone /\ ~hadFailure
  /\ state = "Headers"
  /\ NumLines(Rest) = MaxHeaders + 1
  /\ result = Failure("too many headers")

\* a block of exactly 16 header lines has given 16 headers
C9_AtCapacity ==
  /\ stream \in Crowded /\ ~hadDone /\ ~hadFailure
  /\ NumLines(Rest) = MaxHeaders
  /\ result.kind = "Done"
  /\ Len(iter(result.response.headers)) = MaxHeaders

-----------------------------------------------------------------------------
\* the state changes the parser may make
Forward == {<<"Initial", "StatusLine">>, <<"Initial", "Headers">>,
            <<"StatusLine", "Headers">>, <<"Headers", "Complete">>,
            <<"Initial", "Complete">>}

Rank(s) ==
  CASE s = "Initial" -> 0 [] s = "StatusLine" -> 1 [] s = "Headers" -> 2 [] s = "Complete" -> 3

\* C10: a call of write may assign self.state more than once; every such
\* assignment, after a failure too, is one of Initial->StatusLine, Initial->Headers,
\* StatusLine->Headers, Headers->Complete, Initial->Complete, and no call
\* leaves the parser in an earlier state than it found it in.
C10_ForwardOnly ==
  [][LET path == <<state>> \o trail'
     IN /\ \A k \in 1..(Len(path) - 1) : <<path[k], path[k + 1]>> \in Forward
        /\ state' = path[Len(path)]
        /\ Rank(state) <= Rank(state')]_vars

\* a call that changed the state twice, to Headers and on to Complete
C10_Witness == trail = <<"Headers", "Complete">> /\ depth = 1 /\ state = "Complete"

-----------------------------------------------------------------------------
\* C11: right after a call of write that returned Done, from the Headers
\* handling or from the fast path of Initial, the state is Complete and the
\* buffer is empty.
C11_DoneImpliesComplete ==
  result.kind = "Done" => (state = "Complete" /\ buf = <<>>)

-----------------------------------------------------------------------------
\* the first line of the input has been received whole
FirstLineReceived == FirstLineEnd # 0 /\ pos >= FirstLineEnd

\* the input received so far is merely incomplete: its first line has not
\* ended, or it is a valid status line and what follows it has neither
\* \r\n\r\n nor \n\n
Incomplete ==
  \/ ~FirstLineReceived
  \/ validate_status(Head0(stream, FirstLineEnd)) /\ ~HasTerminator(Rest)

\* C12: on an instance with no earlier failure, a call of write returns
\* Pending exactly when the input received up to and including its chunk is
\* incomplete; otherwise it returns Done or a failure.
C12_PendingExact ==
  (~hadFailure /\ result.kind # "NotCalled") =>
    /\ (result = Pending) <=> Incomplete
    /\ result.kind \in {"Pending", "Done", "Failure"}

\* the same up to the first Done of the instance
C12_PendingExactUntilDone == hadDone \/ C12_PendingExact

-----------------------------------------------------------------------------
\* the whole input after its first line
Block0 == Tail0(stream, FirstLineEnd)

\* a valid response: a valid status line, at most 16 well-formed header
\* lines, a blank line, then the trailing data
ValidResponse ==
  /\ \/ stream \in WithBlankLine
     \/ source \in WithBlankLine /\ BareLF(source) /\ stream = crlf_form(source)
  /\ NumLines(Block0) <= MaxHeaders

\* the position in the input of the last byte of the blank line
TermEnd == FirstLineEnd + BlankLineEnd(Block0)

\* the position where the chunk of the last call began
ChunkStart == size * ((pos - 1) \div size)

\* where the earliest \r\n\r\n or \n\n of b ends, 0 if b has neither
PatternEnd(b) ==
  LET ends == {i + 3 : i \in {search_in(CRLFCRLF, b)} \ {0}}
              \cup {i + 1 : i \in {search_in(LFLF, b)} \ {0}}
  IN IF ends = {} THEN 0 ELSE CHOOSE e \in ends : \A f \in ends : e <= f

\* the blank line of the input is where the earliest \r\n\r\n or \n\n after
\* the status line ends
PatternTerminated == PatternEnd(Block0) # 0 /\ PatternEnd(Block0) = BlankLineEnd(Block0)

CompletionPoint ==
  IF pos < TermEnd THEN result = Pending
  ELSE /\ result.kind = "Done"
       /\ ChunkStart < TermEnd
       /\ result.leftover = SubSeq(stream, TermEnd + 1, pos)
       /\ IsPrefix(result.leftover, Tail0(stream, TermEnd))
       /\ Len(result.leftover) = Min(pos - TermEnd, Len(stream) - TermEnd)

-----------------------------------------------------------------------------
\* C14: on an instance where no call has failed, the buffer is empty whenever
\* the state is Initial or Complete, it is all the bytes received whenever the
\* state is StatusLine, and it is the bytes received after the \n of the
\* status line whenever the state is Headers.
C14_BufferDiscipline ==
  (~hadFailure /\ result.kind # "Failure") =>
    /\ state \in {"Initial", "Complete"} => buf = <<>>
    /\ state = "StatusLine" => buf = Received
    /\ state = "Headers" => (FirstLineReceived /\ buf = Rest)

\* the same up to the first Done of the instance
C14_BufferDisciplineUntilDone == hadDone \/ C14_BufferDiscipline

-----------------------------------------------------------------------------
\* what the Headers handling returns for the bytes rest and an empty buffer
SlowPath(rest) == write_Headers([state |-> "Headers", buf |-> <<>>], rest, 0).result

\* C15: when a call of write made in the Initial state (the first call among
\* them) gets a chunk with a valid status line whose remainder ends with
\* \r\n\r\n, it returns what the Headers handling returns for that remainder
\* and an empty buffer: the same response and leftover, or the same failure.
C15_FastPathIsSlowPath ==
  [][LET chunk == SubSeq(stream, pos + 1, pos')
         index == find_newline(chunk)
         rest == Tail0(chunk, index)
     IN (/\ state = "Initial"
         /\ index # 0
         /\ validate_status(Head0(chunk, index))
         /\ ends_with(rest, CRLFCRLF))
        => result' = SlowPath(rest)]_vars

\* the first call took the fast path and returned a leftover
C15_Witness ==
  /\ ~hadDone /\ ~hadFailure
  /\ trail = <<>> /\ depth = 0
  /\ FirstLineReceived
  /\ validate_status(Head0(stream, FirstLineEnd))
  /\ ends_with(Rest, CRLFCRLF)
  /\ result.kind = "Done"
  /\ result.leftover # <<>>
  /\ result = SlowPath(Rest)

\* the first call took the fast path and failed
C15_FailureWitness ==
  /\ ~hadDone /\ ~hadFailure
  /\ trail = <<>> /\ depth = 0
  /\ FirstLineReceived
  /\ validate_status(Head0(stream, FirstLineEnd))
  /\ ends_with(Rest, CRLFCRLF)
  /\ result.kind = "Failure"
  /\ result = SlowPath(Rest)

-----------------------------------------------------------------------------
\* C16: for an input with a valid status line and a header block ended by a
\* blank line, in any mix of \n and \r\n line ends and with zero header lines
\* too, the call of write that delivers the last byte of the blank line (no
\* call before it having returned Done or a failure) returns Done or a
\* failure, not Pending.
C16_TerminatedBlockCompletes ==
  [][(/\ stream \in WithBlankLine
      /\ ~hadDone' /\ ~hadFailure'
      /\ pos < TermEnd /\ TermEnd <= pos')
     => result'.kind \in {"Done", "Failure"}]_vars

\* the same for the blocks whose blank line ends a \r\n\r\n or \n\n that lies
\* after the status line
C16_PatternTerminatedCompletes ==
  [][(/\ stream \in WithBlankLine /\ PatternTerminated
      /\ ~hadDone' /\ ~hadFailure'
      /\ pos < TermEnd /\ TermEnd <= pos')
     => result'.kind \in {"Done", "Failure"}]_vars

-----------------------------------------------------------------------------
\* C17: in every reachable state with the state StatusLine, after a failed
\* call too, the buffer has no \n, so that looking for the line break in the
\* new chunk alone is the same as looking for it in the buffer with the chunk
\* appended.
C17_StatusLineScan == state = "StatusLine" => find_newline(buf) = 0

\* the same on an instance where no call has failed
C17_StatusLineScanNoFailure ==
  (~hadFailure /\ result.kind # "Failure") => C17_StatusLineScan

-----------------------------------------------------------------------------
\* no call before the one of this step has returned Done or a failure
NoOutcomeBefore == ~hadDone' /\ ~hadFailure'

\* a call of write with an empty chunk returns Pending, leaves the buffer as
\* it was, and changes the state from Initial to StatusLine or not at all
EmptyChunkStep ==
  (NoOutcomeBefore /\ pos' = pos) =>
    /\ result' = Pending
    /\ buf' = buf
    /\ state' = state \/ (state = "Initial" /\ state' = "StatusLine")

\* the state change an empty chunk makes, Initial to StatusLine, changes
\* nothing of a later call: a call with the chunk c made in Initial returns
\* what the same call made in StatusLine with the same buffer returns and,
\* when that is Pending, leaves the same state and buffer
EmptyChunkBefore ==
  (NoOutcomeBefore /\ state = "Initial") =>
    LET c == SubSeq(stream, pos + 1, pos')
        alt == write([state |-> "StatusLine", buf |-> buf], c, 0)
    IN /\ result' = alt.result
       /\ result'.kind = "Pending" => (state' = alt.state /\ buf' = alt.buf)

\* C18: on an instance that has not returned Done or a failure, a call of
\* write with an empty chunk returns Pending, leaves the buffer unchanged and
\* changes the state only from Initial to StatusLine; and a chunk written
\* after such a call returns the same response, leftover or failure as it
\* returns without it.
C18_EmptyChunksNeutral == [][EmptyChunkStep /\ EmptyChunkBefore]_vars

\* only empty chunks have been written: the state is StatusLine, the buffer
\* is empty and the last call returned Pending
C18_Witness ==
  /\ ~hadDone /\ ~hadFailure
  /\ pos = 0
  /\ state = "StatusLine"
  /\ trail = <<>>
  /\ buf = <<>>
  /\ result = Pending

-----------------------------------------------------------------------------
\* C19: a call of write re-enters write at most once; it does so only when
\* made in Initial or StatusLine, after assigning Headers to the state, so the
\* nested call runs the Headers handling (which leaves the state Headers or
\* sets it to Complete) and does not nest further; the call ends with a
\* result.
C19_BoundedReentry ==
  [][/\ depth' \in {0, 1}
     /\ depth' = 1 =>
          /\ state \in {"Initial", "StatusLine"}
          /\ trail' \in {<<"Headers">>, <<"Headers", "Complete">>}
          /\ state' \in {"Headers", "Complete"}
     /\ state \in {"Headers", "Complete"} => depth' = 0
     /\ result'.kind \in {"Pending", "Done", "Failure"}]_vars

\* a call that re-entered write once, and whose nested call found no
\* terminator and returned Pending in the Headers state
C19_Witness ==
  /\ depth = 1
  /\ trail = <<"Headers">>
  /\ state = "Headers"
  /\ result = Pending
  /\ buf # <<>>

====
